---- MODULE Spec2Model ----
(***************************************************************************)
(* Size-based split check of raftstore                                     *)
(* (src/raftstore/coprocessor/split_check/size.rs).                        *)
(*                                                                         *)
(* Checker            the per-scan accumulator: on_kv and split_key.       *)
(* SizeCheckObserver  add_checker: probe the approximate size, publish it, *)
(*                    register a Checker when a scan is needed.            *)
(* The scan driver (the split-check runner and its Host) and the channel   *)
(* (RetryableSendCh) live outside size.rs; they are modelled from their    *)
(* description and from the way size.rs and its tests use them.            *)
(*                                                                         *)
(* Sizes are u64 in the source.  In Spec, SpecApi, SpecConc and SpecPair    *)
(* every sum stays below MaxEntries * MaxEntrySize, far from 2^64, so the  *)
(* additions are exact.  SpecWide counts sizes in units of 2^60 bytes and  *)
(* covers the sums that pass the end of the u64 range.                     *)
(***************************************************************************)
EXTENDS Integers, Sequences, FiniteSets

(* ------------------------------ bounds -------------------------------- *)
\* entries one scan may feed to a Checker
MaxEntries == 3
\* logical size of one entry (key length + value length): 0..MaxEntrySize
MaxEntrySize == 2
\* region_max_size ranges over 1..MaxThreshold
MaxThreshold == 3
\* capacity of the bounded channel to the region controller
ChanCap == 2

Workers == {1, 2}
\* the split-check worker of one store runs its tasks one after another
SeqWorkers == {1}

\* the keys of a region, in scan order: compared as numbers
Keys == 1..MaxEntries
EntrySizes == 0..MaxEntrySize
KeyEntries == [key : Keys, size : EntrySizes]
\* a stored record has a non-empty key: what a scan yields has a size of at least 1
ScanEntries == {e \in KeyEntries : e.size >= 1}

\* the region of test_split_check: id 1, epoch (version 2, conf_ver 5)
RegionId == 1
EpochVersion == 2
EpochConfVer == 5
RegionDescs == {[id |-> RegionId,
                 epoch |-> [version |-> EpochVersion, conf_ver |-> EpochConfVer]]}
\* the region a worker checks: sibling workers check different regions
RegionsOf(w) == {[rg EXCEPT !.id = rg.id + w - 1] : rg \in RegionDescs}
\* what the Probe may answer: Err, or Ok(size) with a size around the ceiling
ProbeResults(max) ==
    [ok : {TRUE}, size : {max - 1, max, max + 1}] \cup {[ok |-> FALSE, size |-> 0]}

\* Option<Vec<u8>>: None is the empty sequence, Some(k) is <<k>>
None == << >>
Some(k) == <<k>>

(* ------------------------------ Checker ------------------------------- *)
Checker_new(max, split) ==
    [max_size |-> max, split_size |-> split,
     current_size |-> 0, split_key |-> None]

\* on_kv with the stop test written >= max_size
on_kv_stop_ge(c, entry) ==
    LET cur == c.current_size + entry.size
        key == IF cur > c.split_size /\ c.split_key = None
               THEN Some(entry.key)
               ELSE c.split_key
    IN  [checker |-> [c EXCEPT !.current_size = cur, !.split_key = key],
         ret |-> (cur >= c.max_size)]

\* on_kv with the latch test written >= split_size
on_kv_latch_ge(c, entry) ==
    LET cur == c.current_size + entry.size
        key == IF cur >= c.split_size /\ c.split_key = None
               THEN Some(entry.key)
               ELSE c.split_key
    IN  [checker |-> [c EXCEPT !.current_size = cur, !.split_key = key],
         ret |-> (cur > c.max_size)]

\* on_kv without the is_none() test: every entry past split_size is latched
on_kv_relatch(c, entry) ==
    LET cur == c.current_size + entry.size
        key == IF cur > c.split_size
               THEN Some(entry.key)
               ELSE c.split_key
    IN  [checker |-> [c EXCEPT !.current_size = cur, !.split_key = key],
         ret |-> (cur > c.max_size)]

\* on_kv that tests max_size first and returns before latching
on_kv_stop_first(c, entry) ==
    LET cur == c.current_size + entry.size
        key == IF cur <= c.max_size /\ cur > c.split_size /\ c.split_key = None
               THEN Some(entry.key)
               ELSE c.split_key
    IN  [checker |-> [c EXCEPT !.current_size = cur, !.split_key = key],
         ret |-> (cur > c.max_size)]

\* on_kv with the latch test made on the size before the entry is added
on_kv_latch_stale(c, entry) ==
    LET cur == c.current_size + entry.size
        key == IF c.current_size > c.split_size /\ c.split_key = None
               THEN Some(entry.key)
               ELSE c.split_key
    IN  [checker |-> [c EXCEPT !.current_size = cur, !.split_key = key],
         ret |-> (cur > c.max_size)]

\* on_kv that counts the entries of the write column family only
on_kv_write_only(c, entry) ==
    LET cur == c.current_size + (IF entry.cf = "write" THEN entry.size ELSE 0)
        key == IF cur > c.split_size /\ c.split_key = None
               THEN Some(entry.key)
               ELSE c.split_key
    IN  [checker |-> [c EXCEPT !.current_size = cur, !.split_key = key],
         ret |-> (cur > c.max_size)]

\* on_kv that signals only on the call that takes current_size past max_size
on_kv_stop_once(c, entry) ==
    LET cur == c.current_size + entry.size
        key == IF cur > c.split_size /\ c.split_key = None
               THEN Some(entry.key)
               ELSE c.split_key
    IN  [checker |-> [c EXCEPT !.current_size = cur, !.split_key = key],
         ret |-> (cur > c.max_size /\ c.current_size <= c.max_size)]

\* on_kv that makes sure a key is there whenever it asks for the stop
on_kv_latch_at_stop(c, entry) ==
    LET cur == c.current_size + entry.size
        key == IF (cur > c.split_size \/ cur > c.max_size) /\ c.split_key = None
               THEN Some(entry.key)
               ELSE c.split_key
    IN  [checker |-> [c EXCEPT !.current_size = cur, !.split_key = key],
         ret |-> (cur > c.max_size)]

\* on_kv: the Checker after the call, and the value returned
on_kv(c, entry) ==
    LET cur == c.current_size + entry.size
        key == IF cur > c.split_size /\ c.split_key = None
               THEN Some(entry.key)
               ELSE c.split_key
    IN  [checker |-> [c EXCEPT !.current_size = cur, !.split_key = key],
         ret |-> (cur > c.max_size)]

\* `self.current_size += entry.entry_size() as u64` on a u64. To reach the end of
\* the u64 range, sizes are counted here in units of 2^60 bytes, of which a u64
\* holds 0 .. 2^4 - 1. A sum that fits is stored as it is. One that does not fit
\* makes a build with overflow checks (debug) panic and a build without them
\* (release) store the sum modulo 2^64.
U64Units == 2 ^ 4

Overflows(c, entry) == c.current_size + entry.size >= U64Units

\* on_kv as a build without overflow checks runs it
on_kv_u64(c, entry) ==
    LET cur == (c.current_size + entry.size) % U64Units
        key == IF cur > c.split_size /\ c.split_key = None
               THEN Some(entry.key)
               ELSE c.split_key
    IN  [checker |-> [c EXCEPT !.current_size = cur, !.split_key = key],
         ret |-> (cur > c.max_size)]

\* split_key without the current_size > max_size gate
split_key_ungated(c) ==
    [checker |-> [c EXCEPT !.split_key = None], ret |-> c.split_key]

\* split_key that starts the count afresh when it hands the key out
split_key_reset(c) ==
    IF c.current_size > c.max_size
    THEN [checker |-> [c EXCEPT !.split_key = None, !.current_size = 0],
          ret |-> c.split_key]
    ELSE [checker |-> c, ret |-> None]

\* split_key that returns a copy of the key and keeps it (clone() for take())
split_key_clone(c) ==
    IF c.current_size > c.max_size
    THEN [checker |-> c, ret |-> c.split_key]
    ELSE [checker |-> c, ret |-> None]

\* split_key: the Checker after the call (take() leaves None), and the value returned
split_key(c) ==
    IF c.current_size > c.max_size
    THEN [checker |-> [c EXCEPT !.split_key = None], ret |-> c.split_key]
    ELSE [checker |-> c, ret |-> None]

(* ------------------------------- state -------------------------------- *)
VARIABLES
    observer,     \* SizeCheckObserver: [region_max_size, split_size]
    ch,           \* messages queued on the channel, oldest first
    rx_open,      \* the receiving end of the channel still exists
    pc,           \* per worker: where its current region check stands
    region,       \* per worker: the region descriptor of the check (ctx.region())
    probe,        \* per worker: what get_region_approximate_size answered
    sent,         \* per worker: the try_send calls of this check, with their results
    host,         \* per worker: the Checkers registered with the scan driver
    fed,          \* per worker: the entries the scan has fed so far
    rets,         \* per worker: what each on_kv call returned
    latched,      \* per worker: the on_kv calls at which split_key went None -> Some
    out,          \* per worker: each split_key() call: entries fed before it, value returned
    send_failed   \* some RegionApproximateSize send has failed so far

vars == <<observer, ch, rx_open, pc, region, probe, sent, host, fed, rets,
          latched, out, send_failed>>

NoRegion == [id |-> 0, epoch |-> [version |-> 0, conf_ver |-> 0]]
NoProbe == [ok |-> FALSE, size |-> 0]

\* SizeCheckObserver::new with a valid configuration: 0 < split <= max
Observer_new(max, split) == [region_max_size |-> max, split_size |-> split]

Configs == {c \in [region_max_size : 1..MaxThreshold, split_size : 1..MaxThreshold] :
               c.split_size <= c.region_max_size}

Init ==
    /\ observer \in {Observer_new(c.region_max_size, c.split_size) : c \in Configs}
    /\ ch = << >>
    /\ rx_open = TRUE
    /\ pc = [w \in Workers |-> "idle"]
    /\ region = [w \in Workers |-> NoRegion]
    /\ probe = [w \in Workers |-> NoProbe]
    /\ sent = [w \in Workers |-> << >>]
    /\ host = [w \in Workers |-> << >>]
    /\ fed = [w \in Workers |-> << >>]
    /\ rets = [w \in Workers |-> << >>]
    /\ latched = [w \in Workers |-> << >>]
    /\ out = [w \in Workers |-> << >>]
    /\ send_failed = FALSE

(* ------------------------------ channel ------------------------------- *)
\* Msg::RegionApproximateSize and Msg::SplitRegion
RegionApproximateSize(id, size) ==
    [type |-> "RegionApproximateSize", region_id |-> id, size |-> size]

SplitRegion(id, epoch, key) ==
    [type |-> "SplitRegion", region_id |-> id, region_epoch |-> epoch, split_key |-> key]

\* RetryableSendCh::try_send: queue the message, or fail when the receiver is
\* gone or the channel stays full
try_send(chan, open, msg) ==
    IF ~open THEN [ch |-> chan, res |-> "closed"]
    ELSE IF Len(chan) >= ChanCap THEN [ch |-> chan, res |-> "full"]
    ELSE [ch |-> Append(chan, msg), res |-> "ok"]

\* Host::add_checker
Host_add_checker(h, c) == Append(h, c)

(* ------------------------ SizeCheckObserver --------------------------- *)
\* the Err arm with the two thresholds passed to Checker::new in the wrong order
on_probe_err_swapped(h, obs) ==
    Host_add_checker(h, Checker_new(obs.split_size, obs.region_max_size))

\* add_checker, Err arm of the Probe: the host after registering a fresh Checker
on_probe_err(h, obs) ==
    Host_add_checker(h, Checker_new(obs.region_max_size, obs.split_size))

\* the message with its two fields filled the wrong way round
size_msg_swapped(rg, size) == RegionApproximateSize(size, rg.id)

\* add_checker: the message built from the region id and the Ok(size) of the Probe
size_msg(rg, size) == RegionApproximateSize(rg.id, size)

\* the comparison written size > region_max_size
on_probe_ok_gt(h, obs, size) ==
    IF size > obs.region_max_size
    THEN Host_add_checker(h, Checker_new(obs.region_max_size, obs.split_size))
    ELSE h

\* the comparison inverted: a Checker is registered for the small estimates
on_probe_ok_le(h, obs, size) ==
    IF size <= obs.region_max_size
    THEN Host_add_checker(h, Checker_new(obs.region_max_size, obs.split_size))
    ELSE h

\* add_checker: the host after comparing the estimate with region_max_size
on_probe_ok(h, obs, size) ==
    IF size >= obs.region_max_size
    THEN Host_add_checker(h, Checker_new(obs.region_max_size, obs.split_size))
    ELSE h

\* the Err of try_send propagated: add_checker gives up the check
after_try_send_propagate(res) == IF res = "ok" THEN "sent" ELSE "failed"

\* add_checker: where it goes on after try_send returned; an Err is only logged
after_try_send(res) == "sent"

\* add_checker, first step: read the region, call the Probe; on Err register a
\* Checker and return
add_checker_probe(w) ==
    /\ pc[w] = "idle"
    /\ \E rg \in RegionsOf(w), res \in ProbeResults(observer.region_max_size) :
          /\ region' = [region EXCEPT ![w] = rg]
          /\ probe' = [probe EXCEPT ![w] = res]
          /\ IF res.ok
             THEN /\ pc' = [pc EXCEPT ![w] = "probed"]
                  /\ host' = host
             ELSE /\ pc' = [pc EXCEPT ![w] = "scan"]
                  /\ host' = [host EXCEPT ![w] = on_probe_err(host[w], observer)]
    /\ UNCHANGED <<observer, ch, rx_open, sent, fed, rets, latched, out, send_failed>>

\* the estimate published only once the scan is over
add_checker_send_late(w) ==
    \/ /\ pc[w] = "probed"
       /\ pc' = [pc EXCEPT ![w] = "sent"]
       /\ UNCHANGED <<observer, ch, rx_open, region, probe, sent, host, fed, rets,
                      latched, out, send_failed>>
    \/ /\ pc[w] = "done"
       /\ probe[w].ok
       /\ \A i \in 1..Len(sent[w]) : sent[w][i].msg.type # "RegionApproximateSize"
       /\ LET msg == size_msg(region[w], probe[w].size)
              r == try_send(ch, rx_open, msg)
          IN  /\ ch' = r.ch
              /\ sent' = [sent EXCEPT ![w] = Append(sent[w], [msg |-> msg, res |-> r.res])]
              /\ send_failed' = (send_failed \/ r.res # "ok")
       /\ UNCHANGED <<observer, rx_open, pc, region, probe, host, fed, rets, latched, out>>

\* add_checker, second step: try_send the estimate
add_checker_send(w) ==
    /\ pc[w] = "probed"
    /\ LET msg == size_msg(region[w], probe[w].size)
           r == try_send(ch, rx_open, msg)
       IN  /\ ch' = r.ch
           /\ sent' = [sent EXCEPT ![w] = Append(sent[w], [msg |-> msg, res |-> r.res])]
           /\ send_failed' = (send_failed \/ r.res # "ok")
           /\ pc' = [pc EXCEPT ![w] = after_try_send(r.res)]
    /\ UNCHANGED <<observer, rx_open, region, probe, host, fed, rets, latched, out>>

\* the Observer keeps the Checker it built and registers that one again
add_checker_decide_reuse(w) ==
    /\ pc[w] = "sent"
    /\ host' = [host EXCEPT ![w] =
                  IF \E v \in Workers \ {w} : host[v] # << >>
                  THEN host[CHOOSE v \in Workers \ {w} : host[v] # << >>]
                  ELSE on_probe_ok(host[w], observer, probe[w].size)]
    /\ pc' = [pc EXCEPT ![w] = "scan"]
    /\ UNCHANGED <<observer, ch, rx_open, region, probe, sent, fed, rets, latched, out,
                   send_failed>>

\* add_checker, last step: register a Checker iff the estimate reaches region_max_size
add_checker_decide(w) ==
    /\ pc[w] = "sent"
    /\ host' = [host EXCEPT ![w] = on_probe_ok(host[w], observer, probe[w].size)]
    /\ pc' = [pc EXCEPT ![w] = "scan"]
    /\ UNCHANGED <<observer, ch, rx_open, region, probe, sent, fed, rets, latched, out,
                   send_failed>>

(* ---------------------------- scan driver ----------------------------- *)
\* the scan stops as soon as an on_kv call has returned true
Stopped(w) == Len(rets[w]) > 0 /\ rets[w][Len(rets[w])]

LastKey(w) == IF Len(fed[w]) = 0 THEN 0 ELSE fed[w][Len(fed[w])].key

\* every registered Checker sees the entry; true from any of them stops the scan
Host_on_kv(h, entry) ==
    [host |-> [i \in 1..Len(h) |-> on_kv(h[i], entry).checker],
     ret |-> \E i \in 1..Len(h) : on_kv(h[i], entry).ret]

\* every registered Checker is read once; the first key offered is the result
Host_split_key(h) ==
    LET given == {i \in 1..Len(h) : split_key(h[i]).ret # None}
    IN  [host |-> [i \in 1..Len(h) |-> split_key(h[i]).checker],
         ret |-> IF given = {} THEN None
                 ELSE split_key(h[CHOOSE i \in given : \A j \in given : i <= j]).ret]

\* no Checker was registered: nothing to scan
scan_skip(w) ==
    /\ pc[w] = "scan"
    /\ host[w] = << >>
    /\ pc' = [pc EXCEPT ![w] = "done"]
    /\ UNCHANGED <<observer, ch, rx_open, region, probe, sent, host, fed, rets, latched,
                   out, send_failed>>

\* the iterator yields the next entry of the region, in ascending key order
scan_on_kv(w) ==
    /\ pc[w] = "scan"
    /\ host[w] # << >>
    /\ ~Stopped(w)
    /\ Len(fed[w]) < MaxEntries
    /\ \E entry \in ScanEntries :
          /\ entry.key = LastKey(w) + 1
          /\ LET r == Host_on_kv(host[w], entry)
             IN  /\ host' = [host EXCEPT ![w] = r.host]
                 /\ rets' = [rets EXCEPT ![w] = Append(rets[w], r.ret)]
                 /\ latched' = [latched EXCEPT ![w] =
                                  IF host[w][1].split_key = None
                                     /\ r.host[1].split_key # None
                                  THEN Append(latched[w], Len(fed[w]) + 1)
                                  ELSE latched[w]]
          /\ fed' = [fed EXCEPT ![w] = Append(fed[w], entry)]
    /\ UNCHANGED <<observer, ch, rx_open, pc, region, probe, sent, out, send_failed>>

\* the scan is over (stopped by on_kv, or the range is exhausted): read the result
\* and, when a key was yielded, propose the split with the epoch seen at check start
scan_end(w) ==
    /\ pc[w] = "scan"
    /\ host[w] # << >>
    /\ LET r == Host_split_key(host[w])
           msg == SplitRegion(region[w].id, region[w].epoch, r.ret[1])
           s == try_send(ch, rx_open, msg)
       IN  /\ host' = [host EXCEPT ![w] = r.host]
           /\ out' = [out EXCEPT ![w] = Append(out[w], [at |-> Len(fed[w]), ret |-> r.ret])]
           /\ IF r.ret = None
              THEN UNCHANGED <<ch, sent>>
              ELSE /\ ch' = s.ch
                   /\ sent' = [sent EXCEPT ![w] =
                                 Append(sent[w], [msg |-> msg, res |-> s.res])]
    /\ pc' = [pc EXCEPT ![w] = "done"]
    /\ UNCHANGED <<observer, rx_open, region, probe, fed, rets, latched, send_failed>>

\* the iterator is aborted: the Checker is dropped, split_key() is never called
scan_abort(w) ==
    /\ pc[w] = "scan"
    /\ host[w] # << >>
    /\ pc' = [pc EXCEPT ![w] = "done"]
    /\ UNCHANGED <<observer, ch, rx_open, region, probe, sent, host, fed, rets, latched,
                   out, send_failed>>

\* the check is over: the host and its Checkers are dropped
run_return(w) ==
    /\ pc[w] = "done"
    /\ pc' = [pc EXCEPT ![w] = "idle"]
    /\ region' = [region EXCEPT ![w] = NoRegion]
    /\ probe' = [probe EXCEPT ![w] = NoProbe]
    /\ sent' = [sent EXCEPT ![w] = << >>]
    /\ host' = [host EXCEPT ![w] = << >>]
    /\ fed' = [fed EXCEPT ![w] = << >>]
    /\ rets' = [rets EXCEPT ![w] = << >>]
    /\ latched' = [latched EXCEPT ![w] = << >>]
    /\ out' = [out EXCEPT ![w] = << >>]
    /\ UNCHANGED <<observer, ch, rx_open, send_failed>>

(* ------------------------- region controller -------------------------- *)
\* rx.try_recv(): the oldest message is taken off the channel
recv ==
    /\ rx_open
    /\ ch # << >>
    /\ ch' = Tail(ch)
    /\ UNCHANGED <<observer, rx_open, pc, region, probe, sent, host, fed, rets, latched,
                   out, send_failed>>

\* drop(rx): the receiver goes away, and what was queued with it
drop_rx ==
    /\ rx_open
    /\ rx_open' = FALSE
    /\ ch' = << >>
    /\ UNCHANGED <<observer, pc, region, probe, sent, host, fed, rets, latched, out,
                   send_failed>>

(* ----------------------- Checker used directly ----------------------- *)
\* split_key() calls made on one Checker used directly
MaxReadouts == 2

\* a Checker built directly with Checker::new, as test_checker_with_same_max_and_split_size
\* does: any pair of thresholds, no Observer, no channel traffic
NoObserver == [region_max_size |-> 0, split_size |-> 0]

InitApi ==
    /\ observer = NoObserver
    /\ ch = << >>
    /\ rx_open = TRUE
    /\ pc = [w \in Workers |-> IF w \in SeqWorkers THEN "api" ELSE "idle"]
    /\ region = [w \in Workers |-> NoRegion]
    /\ probe = [w \in Workers |-> NoProbe]
    /\ sent = [w \in Workers |-> << >>]
    /\ \E max \in 1..MaxThreshold, split \in 1..MaxThreshold :
          host = [w \in Workers |->
                    IF w \in SeqWorkers THEN <<Checker_new(max, split)>> ELSE << >>]
    /\ fed = [w \in Workers |-> << >>]
    /\ rets = [w \in Workers |-> << >>]
    /\ latched = [w \in Workers |-> << >>]
    /\ out = [w \in Workers |-> << >>]
    /\ send_failed = FALSE

\* checker.on_kv(&mut ctx, &data)
api_on_kv(w) ==
    /\ pc[w] = "api"
    /\ Len(fed[w]) < MaxEntries
    /\ \E entry \in KeyEntries :
          /\ entry.key = LastKey(w) + 1
          /\ LET r == on_kv(host[w][1], entry)
             IN  /\ host' = [host EXCEPT ![w] = <<r.checker>>]
                 /\ rets' = [rets EXCEPT ![w] = Append(rets[w], r.ret)]
                 /\ latched' = [latched EXCEPT ![w] =
                                  IF host[w][1].split_key = None
                                     /\ r.checker.split_key # None
                                  THEN Append(latched[w], Len(fed[w]) + 1)
                                  ELSE latched[w]]
          /\ fed' = [fed EXCEPT ![w] = Append(fed[w], entry)]
    /\ UNCHANGED <<observer, ch, rx_open, pc, region, probe, sent, out, send_failed>>

\* checker.split_key()
api_split_key(w) ==
    /\ pc[w] = "api"
    /\ Len(out[w]) < MaxReadouts
    /\ LET r == split_key(host[w][1])
       IN  /\ host' = [host EXCEPT ![w] = <<r.checker>>]
           /\ out' = [out EXCEPT ![w] = Append(out[w], [at |-> Len(fed[w]), ret |-> r.ret])]
    /\ UNCHANGED <<observer, ch, rx_open, pc, region, probe, sent, fed, rets, latched,
                   send_failed>>

(* ------------- Checker used directly, near the u64 limit -------------- *)
\* entry sizes in units of 2^60 bytes: nothing, one unit, half the u64 range, and
\* the largest size a u64 holds
WideSizes == {0, 1, U64Units \div 2, U64Units - 1}

WideEntries == [key : Keys, size : WideSizes]

\* checker.on_kv(&mut ctx, &data) with a u64 accumulator: on overflow the call
\* either panics (overflow checks on) or stores the wrapped sum (overflow checks off)
wide_on_kv(w) ==
    /\ pc[w] = "api"
    /\ Len(fed[w]) < MaxEntries
    /\ \E entry \in WideEntries :
          /\ entry.key = LastKey(w) + 1
          /\ \/ /\ Overflows(host[w][1], entry)
                /\ pc' = [pc EXCEPT ![w] = "panicked"]
                /\ UNCHANGED <<host, rets, latched, fed>>
             \/ /\ LET r == on_kv_u64(host[w][1], entry)
                   IN  /\ host' = [host EXCEPT ![w] = <<r.checker>>]
                       /\ rets' = [rets EXCEPT ![w] = Append(rets[w], r.ret)]
                       /\ latched' = [latched EXCEPT ![w] =
                                        IF host[w][1].split_key = None
                                           /\ r.checker.split_key # None
                                        THEN Append(latched[w], Len(fed[w]) + 1)
                                        ELSE latched[w]]
                /\ fed' = [fed EXCEPT ![w] = Append(fed[w], entry)]
                /\ pc' = pc
    /\ UNCHANGED <<observer, ch, rx_open, region, probe, sent, out, send_failed>>

(* ------------------- two Checkers fed side by side -------------------- *)
\* the column family an entry was read from, as KeyEntry::new records it
CFs == {"default", "lock", "write"}

\* the tags given to the two copies of one entry
TagPairs == {<<"write", "default">>, <<"default", "lock">>}

\* two Checkers built with the same thresholds, each called directly
InitPair ==
    /\ observer = NoObserver
    /\ ch = << >>
    /\ rx_open = TRUE
    /\ pc = [w \in Workers |-> "pair"]
    /\ region = [w \in Workers |-> NoRegion]
    /\ probe = [w \in Workers |-> NoProbe]
    /\ sent = [w \in Workers |-> << >>]
    /\ \E max \in 1..MaxThreshold, split \in 1..MaxThreshold :
          host = [w \in Workers |-> <<Checker_new(max, split)>>]
    /\ fed = [w \in Workers |-> << >>]
    /\ rets = [w \in Workers |-> << >>]
    /\ latched = [w \in Workers |-> << >>]
    /\ out = [w \in Workers |-> << >>]
    /\ send_failed = FALSE

\* each Checker gets on_kv with an entry of the same key and size; the two
\* entries carry different column-family tags
pair_on_kv ==
    /\ \A w \in Workers : pc[w] = "pair"
    /\ Len(fed[1]) < MaxEntries
    /\ \E entry \in KeyEntries, tags \in TagPairs :
          /\ entry.key = LastKey(1) + 1
          /\ tags[1] \in CFs /\ tags[2] \in CFs
          /\ LET data == [w \in Workers |->
                            [key |-> entry.key, size |-> entry.size, cf |-> tags[w]]]
                 r == [w \in Workers |-> on_kv(host[w][1], data[w])]
             IN  /\ host' = [w \in Workers |-> <<r[w].checker>>]
                 /\ rets' = [w \in Workers |-> Append(rets[w], r[w].ret)]
                 /\ latched' = [w \in Workers |->
                                  IF host[w][1].split_key = None
                                     /\ r[w].checker.split_key # None
                                  THEN Append(latched[w], Len(fed[w]) + 1)
                                  ELSE latched[w]]
                 /\ fed' = [w \in Workers |-> Append(fed[w], data[w])]
    /\ UNCHANGED <<observer, ch, rx_open, pc, region, probe, sent, out, send_failed>>

\* each Checker gets split_key()
pair_split_key ==
    /\ \A w \in Workers : pc[w] = "pair"
    /\ Len(out[1]) < MaxReadouts
    /\ LET r == [w \in Workers |-> split_key(host[w][1])]
       IN  /\ host' = [w \in Workers |-> <<r[w].checker>>]
           /\ out' = [w \in Workers |->
                        Append(out[w], [at |-> Len(fed[w]), ret |-> r[w].ret])]
    /\ UNCHANGED <<observer, ch, rx_open, pc, region, probe, sent, fed, rets, latched,
                   send_failed>>

(* --------------------------- specification ---------------------------- *)
Next ==
    \/ \E w \in SeqWorkers : add_checker_probe(w)
    \/ \E w \in SeqWorkers : add_checker_send(w)
    \/ \E w \in SeqWorkers : add_checker_decide(w)
    \/ \E w \in SeqWorkers : scan_skip(w)
    \/ \E w \in SeqWorkers : scan_on_kv(w)
    \/ \E w \in SeqWorkers : scan_end(w)
    \/ \E w \in SeqWorkers : scan_abort(w)
    \/ \E w \in SeqWorkers : run_return(w)
    \/ recv
    \/ drop_rx

Spec == Init /\ [][Next]_vars

NextApi ==
    \/ \E w \in SeqWorkers : api_on_kv(w)
    \/ \E w \in SeqWorkers : api_split_key(w)

SpecApi == InitApi /\ [][NextApi]_vars

NextWide ==
    \/ \E w \in SeqWorkers : wide_on_kv(w)
    \/ \E w \in SeqWorkers : api_split_key(w)

\* the Checker of InitApi, its thresholds read as 1 .. MaxThreshold units
SpecWide == InitApi /\ [][NextWide]_vars

(* ------------------------- sibling workers ---------------------------- *)
\* entries one scan feeds while two checks run side by side
MaxConcEntries == 2

\* two workers, one check each, of different regions, against the same Observer;
\* their steps interleave freely and nothing is taken off the channel meanwhile
NextConc ==
    \/ \E w \in Workers : add_checker_probe(w)
    \/ \E w \in Workers : add_checker_send(w)
    \/ \E w \in Workers : add_checker_decide(w)
    \/ \E w \in Workers : scan_skip(w)
    \/ \E w \in Workers : Len(fed[w]) < MaxConcEntries /\ scan_on_kv(w)
    \/ \E w \in Workers : scan_end(w)
    \/ \E w \in Workers : scan_abort(w)

SpecConc == Init /\ [][NextConc]_vars

NextPair ==
    \/ pair_on_kv
    \/ pair_split_key

SpecPair == InitPair /\ [][NextPair]_vars

(* ============================== Checker =============================== *)
\* the sum of the sizes of the first i entries of a stream
RECURSIVE CumSize(_, _)
CumSize(es, i) == IF i = 0 THEN 0 ELSE CumSize(es, i - 1) + es[i].size

\* the first on_kv call that returned true, 0 when none did
FirstStop(w) ==
    IF \E i \in 1..Len(rets[w]) : rets[w][i]
    THEN CHOOSE i \in 1..Len(rets[w]) : rets[w][i] /\ \A j \in 1..(i - 1) : ~rets[w][j]
    ELSE 0

\* the Checker of worker w
Chk(w) == host[w][1]

\* C1: every on_kv call returns true exactly when the sizes fed so far, that
\* entry's included, add up to strictly more than max_size; current_size is that sum.
C1_StopSignal ==
    \A w \in SeqWorkers :
        /\ Len(rets[w]) = Len(fed[w])
        /\ Chk(w).current_size = CumSize(fed[w], Len(fed[w]))
        /\ \A i \in 1..Len(rets[w]) :
              rets[w][i] <=> (CumSize(fed[w], i) > Chk(w).max_size)

\* a run in which on_kv returned false and then true
C1_Witness ==
    \E w \in SeqWorkers :
        \E i \in 2..Len(rets[w]) : ~rets[w][i - 1] /\ rets[w][i]

\* C2: the terminal split_key() call (the first one made) returns a key exactly
\* when the sizes fed before it exceed max_size and a key had been latched; when
\* they do not exceed max_size it returns None even though a key was latched.
C2_ReleaseGate ==
    \A w \in SeqWorkers :
        Len(out[w]) >= 1 =>
            LET at == out[w][1].at
                wasLatched == \E j \in 1..Len(latched[w]) : latched[w][j] <= at
                overMax == CumSize(fed[w], at) > Chk(w).max_size
            IN  /\ (out[w][1].ret # None) <=> (overMax /\ wasLatched)
                /\ (out[w][1].ret # None) =>
                      out[w][1].ret = Some(fed[w][latched[w][1]].key)

\* split_key() returned None although a key was latched: max_size was not exceeded
C2_Witness ==
    \E w \in SeqWorkers :
        /\ Len(out[w]) >= 1
        /\ out[w][1].ret = None
        /\ latched[w] # << >>
        /\ latched[w][1] <= out[w][1].at
        /\ Chk(w).split_size < Chk(w).max_size

\* C3: up to the terminal readout, a latched split_key is the key of the first
\* entry at which the cumulative size strictly exceeds split_size (the entries
\* before it add up to at most split_size); the key the readout returns is that key.
IsLatchPosition(w, i) ==
    /\ CumSize(fed[w], i) > Chk(w).split_size
    /\ CumSize(fed[w], i - 1) <= Chk(w).split_size

C3_LatchPosition ==
    \A w \in SeqWorkers :
        /\ (out[w] = << >> /\ Chk(w).split_key # None) =>
              \E i \in 1..Len(fed[w]) :
                  /\ Chk(w).split_key = Some(fed[w][i].key)
                  /\ IsLatchPosition(w, i)
        /\ (Len(out[w]) >= 1 /\ out[w][1].ret # None) =>
              \E i \in 1..out[w][1].at :
                  /\ out[w][1].ret = Some(fed[w][i].key)
                  /\ IsLatchPosition(w, i)

\* the key of the second entry is latched, a third entry was fed after it, and
\* the readout returned that key
C3_Witness ==
    \E w \in SeqWorkers :
        /\ Len(fed[w]) >= 3
        /\ Len(out[w]) >= 1
        /\ out[w][1].at >= 3
        /\ out[w][1].ret = Some(fed[w][2].key)

\* C4 as claimed: over every sequence of on_kv and split_key calls split_key goes
\* from None to Some at most once, and once Some it keeps that value.
C4_LatchedForever ==
    \A w \in SeqWorkers :
        /\ Len(latched[w]) <= 1
        /\ latched[w] # << >> => Chk(w).split_key = Some(fed[w][latched[w][1]].key)

\* C4 as amended: as long as no split_key() call has returned the key, split_key
\* goes from None to Some at most once and keeps its value (under on_kv calls and
\* under split_key() calls that return None); a split_key() call that returns the
\* key leaves None behind.
KeyTaken(w) == \E j \in 1..Len(out[w]) : out[w][j].ret # None

C4_LatchedUntilTaken ==
    \A w \in SeqWorkers :
        /\ ~KeyTaken(w) =>
              /\ Len(latched[w]) <= 1
              /\ latched[w] # << >> =>
                    Chk(w).split_key = Some(fed[w][latched[w][1]].key)
              /\ latched[w] = << >> => Chk(w).split_key = None
        /\ (out[w] # << >>
            /\ out[w][Len(out[w])].ret # None
            /\ out[w][Len(out[w])].at = Len(fed[w])) => Chk(w).split_key = None

\* a key is latched, a split_key() call returned None, and an entry past
\* split_size was fed after both: the key is still the latched one
C4_Witness ==
    \E w \in SeqWorkers :
        /\ ~KeyTaken(w)
        /\ Len(latched[w]) = 1
        /\ out[w] # << >>
        /\ latched[w][1] <= out[w][1].at
        /\ out[w][1].at < Len(fed[w])
        /\ Chk(w).split_key = Some(fed[w][latched[w][1]].key)

\* the thresholds of test_checker_with_same_max_and_split_size, and entries of size 4
TestMaxSize == 24
ExampleEntrySize == 4

\* the Checker after n on_kv calls with the same entry
RECURSIVE FeedSame(_, _, _)
FeedSame(c, entry, n) ==
    IF n = 0 THEN c ELSE on_kv(FeedSame(c, entry, n - 1), entry).checker

\* C5: with max_size = split_size the on_kv call that first returns true is the
\* call that latches the key, and a split_key() made right after it returns the
\* key of that entry; with 24/24 and entries of size 4 that is the 7th call.
C5_EqualThresholds ==
    /\ \A w \in SeqWorkers :
          Chk(w).max_size = Chk(w).split_size =>
              /\ FirstStop(w) # 0 =>
                    /\ latched[w] # << >>
                    /\ latched[w][1] = FirstStop(w)
              /\ (Len(out[w]) >= 1 /\ FirstStop(w) # 0 /\ out[w][1].at = FirstStop(w)) =>
                    out[w][1].ret = Some(fed[w][FirstStop(w)].key)
    /\ LET c0 == Checker_new(TestMaxSize, TestMaxSize)
           e == [key |-> 1, size |-> ExampleEntrySize]
       IN  /\ \A n \in 1..6 : ~on_kv(FeedSame(c0, e, n - 1), e).ret
           /\ on_kv(FeedSame(c0, e, 6), e).ret
           /\ split_key(FeedSame(c0, e, 7)).ret = Some(1)

\* equal thresholds, the second on_kv call is the first to return true, and the
\* split_key() made right after it returned a key
C5_Witness ==
    \E w \in SeqWorkers :
        /\ Chk(w).max_size = Chk(w).split_size
        /\ FirstStop(w) = 2
        /\ Len(out[w]) >= 1
        /\ out[w][1].at = 2
        /\ out[w][1].ret # None
(* ========================= SizeCheckObserver =========================== *)
\* add_checker has returned for the current check of worker w
Returned(w) == pc[w] \in {"scan", "done"}

\* the RegionApproximateSize messages the current check handed to try_send
SizeSends(w) ==
    SelectSeq(sent[w], LAMBDA e : e.msg.type = "RegionApproximateSize")

\* C6: when the Probe fails, add_checker registers exactly one Checker, fresh and
\* built from the Observer's region_max_size and split_size, and hands no
\* RegionApproximateSize message to the channel.
C6_ProbeFailure ==
    \A w \in SeqWorkers :
        (Returned(w) /\ ~probe[w].ok) =>
            /\ Len(host[w]) = 1
            /\ host[w][1].max_size = observer.region_max_size
            /\ host[w][1].split_size = observer.split_size
            /\ (fed[w] = << >> /\ out[w] = << >>) =>
                  (host[w][1].current_size = 0 /\ host[w][1].split_key = None)
            /\ SizeSends(w) = << >>

\* the Probe failed and the scan is under way with the registered Checker
C6_Witness ==
    \E w \in SeqWorkers :
        /\ pc[w] = "scan"
        /\ ~probe[w].ok
        /\ Len(host[w]) = 1
        /\ Len(fed[w]) >= 1
        /\ observer.split_size < observer.region_max_size

\* C7: when the Probe succeeds, add_checker registers exactly one Checker if the
\* estimate is >= region_max_size and none if it is smaller (none for zero).
C7_Threshold ==
    \A w \in SeqWorkers :
        (Returned(w) /\ probe[w].ok) =>
            Len(host[w]) = IF probe[w].size >= observer.region_max_size THEN 1 ELSE 0

\* the estimate equals region_max_size and one Checker is registered
C7_Witness ==
    \E w \in SeqWorkers :
        /\ Returned(w)
        /\ probe[w].ok
        /\ probe[w].size = observer.region_max_size
        /\ Len(host[w]) = 1

\* C8: a check whose Probe succeeded hands exactly one RegionApproximateSize
\* message to the channel, with the region's id and the probed size, whether or
\* not the size reaches region_max_size; before the send none is handed over.
C8_OneSizeMessage ==
    \A w \in SeqWorkers :
        /\ (probe[w].ok /\ pc[w] \in {"sent", "scan", "done"}) =>
              /\ Len(SizeSends(w)) = 1
              /\ SizeSends(w)[1].msg =
                    [type |-> "RegionApproximateSize",
                     region_id |-> region[w].id, size |-> probe[w].size]
        /\ pc[w] \in {"idle", "probed"} => sent[w] = << >>

\* the estimate is below region_max_size, the check is over, the message was sent
C8_Witness ==
    \E w \in SeqWorkers :
        /\ pc[w] = "done"
        /\ probe[w].ok
        /\ probe[w].size < observer.region_max_size
        /\ Len(sent[w]) = 1
        /\ sent[w][1].res = "ok"
        /\ ch # << >>
        /\ ch[Len(ch)] = sent[w][1].msg

\* C9: a failed send (receiver gone, or channel full) does not end the check: it
\* goes on to the same decision as after a successful send, no step of the check
\* is lost, and the checks that follow run as usual.
C9_SendFailureSwallowed ==
    \A w \in SeqWorkers :
        /\ pc[w] \in {"idle", "probed", "sent", "scan", "done"}
        /\ (SizeSends(w) # << >> /\ SizeSends(w)[1].res # "ok") =>
              /\ send_failed
              /\ pc[w] = "sent" => ENABLED add_checker_decide(w)
              /\ Returned(w) =>
                    Len(host[w]) = IF probe[w].size >= observer.region_max_size
                                   THEN 1 ELSE 0
        /\ (send_failed /\ pc[w] = "idle") =>
              /\ ENABLED add_checker_probe(w)
              /\ host[w] = << >> /\ sent[w] = << >> /\ fed[w] = << >> /\ out[w] = << >>

\* after a send that failed on a full channel, a later check sent its estimate and
\* registered its Checker
C9_Witness ==
    \E w \in SeqWorkers :
        /\ send_failed
        /\ rx_open
        /\ Returned(w)
        /\ SizeSends(w) # << >>
        /\ SizeSends(w)[1].res = "ok"
        /\ Len(host[w]) = 1

\* the messages of the current check of worker w that are still queued: the
\* channel is first-in first-out and this worker is its only sender
OkMsgs(w) ==
    LET oks == SelectSeq(sent[w], LAMBDA e : e.res = "ok")
    IN  [i \in 1..Len(oks) |-> oks[i].msg]

Queued(w) ==
    LET n == IF Len(OkMsgs(w)) <= Len(ch) THEN Len(OkMsgs(w)) ELSE Len(ch)
    IN  SubSeq(ch, Len(ch) - n + 1, Len(ch))

\* C10: within one check the Probe is over before the RegionApproximateSize
\* message is handed to the channel, that happens before a SplitRegion of the same
\* check is handed over, and no SplitRegion of a check is queued ahead of the
\* check's RegionApproximateSize.
C10_Ordering ==
    \A w \in SeqWorkers :
        /\ SizeSends(w) # << >> => (probe[w].ok /\ pc[w] # "probed")
        /\ \A i \in 1..Len(sent[w]) :
              sent[w][i].msg.type = "SplitRegion" =>
                  /\ \A j \in (i + 1)..Len(sent[w]) :
                        sent[w][j].msg.type # "RegionApproximateSize"
                  /\ probe[w].ok =>
                        \E j \in 1..(i - 1) : sent[w][j].msg.type = "RegionApproximateSize"
        /\ \A i \in 1..Len(Queued(w)) :
              /\ Queued(w)[i] = OkMsgs(w)[Len(OkMsgs(w)) - Len(Queued(w)) + i]
              /\ Queued(w)[i].type = "SplitRegion" =>
                    \A j \in (i + 1)..Len(Queued(w)) :
                        Queued(w)[j].type # "RegionApproximateSize"

\* the channel holds the RegionApproximateSize of the current check and, behind
\* it, the SplitRegion of the same check
C10_Witness ==
    \E w \in SeqWorkers :
        /\ Len(Queued(w)) = 2
        /\ Queued(w)[1].type = "RegionApproximateSize"
        /\ Queued(w)[2].type = "SplitRegion"


(* ============================ end to end ============================== *)
\* the SplitRegion messages the current check handed to try_send
SplitSends(w) ==
    SelectSeq(sent[w], LAMBDA e : e.msg.type = "SplitRegion")

\* C11: a check hands a SplitRegion to the channel only if a Checker was
\* registered (the Probe failed, or the estimate reached region_max_size) and the
\* sizes the scan fed exceed max_size; the proposal carries the id and the epoch
\* of the region descriptor read at the start of the check and the latched key.
\* A check whose estimate is below region_max_size hands over its
\* RegionApproximateSize and nothing else.
C11_EndToEnd ==
    \A w \in SeqWorkers :
        /\ SplitSends(w) # << >> =>
              /\ Len(SplitSends(w)) = 1
              /\ ~probe[w].ok \/ probe[w].size >= observer.region_max_size
              /\ Len(host[w]) = 1
              /\ CumSize(fed[w], Len(fed[w])) > observer.region_max_size
              /\ latched[w] # << >>
              /\ SplitSends(w)[1].msg =
                    [type |-> "SplitRegion",
                     region_id |-> region[w].id,
                     region_epoch |-> region[w].epoch,
                     split_key |-> fed[w][latched[w][1]].key]
              /\ region[w] \in RegionDescs
        /\ (probe[w].ok /\ probe[w].size < observer.region_max_size) =>
              /\ SplitSends(w) = << >>
              /\ pc[w] = "done" =>
                    (Len(sent[w]) = 1 /\ sent[w][1].msg.type = "RegionApproximateSize")

\* a check whose estimate reached region_max_size has sent its estimate and then
\* proposed a split at a key latched before the entry that stopped the scan
C11_Witness ==
    \E w \in SeqWorkers :
        /\ pc[w] = "done"
        /\ probe[w].ok
        /\ Len(sent[w]) = 2
        /\ sent[w][2].msg.type = "SplitRegion"
        /\ sent[w][2].res = "ok"
        /\ latched[w][1] < Len(fed[w])


(* ====================== the accumulator's range ====================== *)
\* C12: no on_kv call leaves current_size smaller than it was before the call,
\* sums that pass the end of the u64 range included.
C12_Monotonic ==
    [][\A w \in SeqWorkers :
          (host[w] # << >> /\ host'[w] # << >>) =>
              host'[w][1].current_size >= host[w][1].current_size]_vars

(* ===================== thresholds and the latch ====================== *)
\* C13: with split_size <= max_size, as long as split_key() has not been called,
\* a Checker whose current_size exceeds max_size holds a split key; and a first
\* split_key() call made after on_kv has returned true returns a key.
C13_KeyWhenOver ==
    \A w \in SeqWorkers :
        Chk(w).split_size <= Chk(w).max_size =>
            /\ (out[w] = << >> /\ Chk(w).current_size > Chk(w).max_size) =>
                  Chk(w).split_key # None
            /\ (Len(out[w]) >= 1 /\ FirstStop(w) > 0 /\ FirstStop(w) <= out[w][1].at) =>
                  out[w][1].ret # None

\* split_size < max_size, the entry that made on_kv return true jumped over both
\* thresholds at once, and the split_key() call that followed returned its key
C13_Witness ==
    \E w \in SeqWorkers :
        /\ Chk(w).split_size < Chk(w).max_size
        /\ FirstStop(w) > 0
        /\ latched[w] # << >>
        /\ latched[w][1] = FirstStop(w)
        /\ Len(out[w]) >= 1
        /\ out[w][1].at = FirstStop(w)
        /\ out[w][1].ret = Some(fed[w][FirstStop(w)].key)

(* ============================== frame ================================ *)
\* C14: a Checker registered by add_checker starts with current_size 0, no split
\* key, and the Observer's region_max_size and split_size as its thresholds; no
\* on_kv or split_key() call changes a Checker's thresholds; split_key() leaves
\* current_size as it was; no step of a check changes the Observer's thresholds.
C14_Frame ==
    /\ [](\A w \in SeqWorkers :
             (host[w] # << >> /\ fed[w] = << >> /\ out[w] = << >>) =>
                 host[w] = <<[max_size |-> observer.region_max_size,
                              split_size |-> observer.split_size,
                              current_size |-> 0,
                              split_key |-> None]>>)
    /\ [][/\ observer' = observer
          /\ \A w \in SeqWorkers :
                /\ (host[w] # << >> /\ host'[w] # << >>) =>
                      /\ host'[w][1].max_size = host[w][1].max_size
                      /\ host'[w][1].split_size = host[w][1].split_size
                /\ (out'[w] # out[w] /\ host'[w] # << >>) =>
                      host'[w][1].current_size = host[w][1].current_size]_vars

\* the Checker of a finished check: entries were counted, split_key() handed the
\* key out, and the Checker still has the Observer's thresholds and its count
C14_Witness ==
    \E w \in SeqWorkers :
        /\ pc[w] = "done"
        /\ Len(out[w]) = 1
        /\ out[w][1].ret # None
        /\ Chk(w).split_key = None
        /\ Chk(w).current_size = CumSize(fed[w], Len(fed[w]))
        /\ Chk(w).current_size > observer.region_max_size
        /\ observer.split_size < observer.region_max_size

(* ========================== sibling workers =========================== *)
\* a Checker with the Observer's thresholds fed the first i entries of a stream
RECURSIVE Alone(_, _, _)
Alone(obs, es, i) ==
    IF i = 0 THEN Checker_new(obs.region_max_size, obs.split_size)
    ELSE on_kv(Alone(obs, es, i - 1), es[i]).checker

\* C15: two checks of different regions running side by side never work on the
\* same Checker: each registration puts a new Checker in the check's own host,
\* and under every interleaving of the two checks' steps each check's on_kv
\* results and split_key() result are those of a Checker that is fed the check's
\* own entries alone.
C15_NoSharing ==
    \A w \in Workers :
        /\ Len(host[w]) <= 1
        /\ region[w] # NoRegion => \A v \in Workers \ {w} : region[v] # region[w]
        /\ host[w] # << >> =>
              /\ Len(rets[w]) = Len(fed[w])
              /\ \A i \in 1..Len(fed[w]) :
                    rets[w][i] = on_kv(Alone(observer, fed[w], i - 1), fed[w][i]).ret
              /\ out[w] = << >> => host[w][1] = Alone(observer, fed[w], Len(fed[w]))
              /\ out[w] # << >> =>
                    /\ Len(out[w]) = 1
                    /\ out[w][1].at = Len(fed[w])
                    /\ out[w][1].ret = split_key(Alone(observer, fed[w], Len(fed[w]))).ret
                    /\ host[w][1] = split_key(Alone(observer, fed[w], Len(fed[w]))).checker

\* worker 1 has finished its check with a split key while worker 2, whose scan
\* has counted a different size so far, is still scanning
C15_Witness ==
    /\ pc[1] = "done"
    /\ Len(out[1]) = 1
    /\ out[1][1].ret # None
    /\ pc[2] = "scan"
    /\ host[2] # << >>
    /\ fed[2] # << >>
    /\ ~rets[2][Len(rets[2])]
    /\ host[2][1].split_key # None
    /\ region[1].id # region[2].id

(* ====================== what on_kv looks at ========================== *)
\* C16: two Checkers with equal thresholds, fed streams that agree in every
\* entry's key and size and differ in every entry's column-family tag, return
\* the same on_kv results at every step and the same split_key() results.
C16_KeyAndSizeOnly ==
    /\ Len(fed[1]) = Len(fed[2])
    /\ \A i \in 1..Len(fed[1]) :
          /\ fed[1][i].key = fed[2][i].key
          /\ fed[1][i].size = fed[2][i].size
          /\ fed[1][i].cf # fed[2][i].cf
    /\ rets[1] = rets[2]
    /\ out[1] = out[2]
    /\ latched[1] = latched[2]
    /\ host[1] = host[2]

\* two streams of differently tagged entries; both Checkers returned false, then
\* true, and both handed out the key of the same entry
C16_Witness ==
    /\ Len(fed[1]) >= 2
    /\ fed[1][1].cf = "write" /\ fed[2][1].cf = "default"
    /\ fed[1][2].cf = "default" /\ fed[2][2].cf = "lock"
    /\ ~rets[1][1] /\ rets[1][2]
    /\ ~rets[2][1] /\ rets[2][2]
    /\ Len(out[1]) >= 1 /\ out[1][1].ret # None
    /\ Len(out[2]) >= 1 /\ out[2][1].ret = out[1][1].ret

(* ========================= after the stop ============================= *)
\* C17: once an on_kv call has returned true, every later on_kv call on the same
\* Checker returns true as well, and a key that was latched by the time of the
\* first true return is still the Checker's split key after every later on_kv
\* call (as long as split_key() has not handed it out).
C17_StickyStop ==
    \A w \in SeqWorkers :
        /\ \A i \in 1..Len(rets[w]) : \A j \in i..Len(rets[w]) :
              rets[w][i] => rets[w][j]
        /\ (FirstStop(w) > 0 /\ ~KeyTaken(w) /\ latched[w] # << >>
                /\ latched[w][1] <= FirstStop(w)) =>
              Chk(w).split_key = Some(fed[w][latched[w][1]].key)

\* on_kv returned true, then the driver fed an empty entry and another one:
\* both calls returned true and the key latched at the stop is still there
C17_Witness ==
    \E w \in SeqWorkers :
        /\ Len(rets[w]) >= 3
        /\ rets[w][1]
        /\ fed[w][2].size = 0
        /\ fed[w][3].size > 0
        /\ rets[w][2] /\ rets[w][3]
        /\ out[w] = << >>
        /\ Chk(w).split_key = Some(fed[w][1].key)

(* ========================= repeated readout =========================== *)
\* C18: when a split_key() call has returned a key, the next split_key() call on
\* the same Checker, with no on_kv call in between, returns None.
C18_HandedOutOnce ==
    \A w \in SeqWorkers :
        \A j \in 1..(Len(out[w]) - 1) :
            (out[w][j].ret # None /\ out[w][j + 1].at = out[w][j].at) =>
                out[w][j + 1].ret = None

\* split_key() returned a key and was called again straight away
C18_Witness ==
    \E w \in SeqWorkers :
        /\ Len(out[w]) = 2
        /\ out[w][1].ret # None
        /\ out[w][2].at = out[w][1].at
        /\ out[w][2].ret = None
        /\ Chk(w).current_size > Chk(w).max_size

(* ==================== split_size above max_size ====================== *)
\* C19: a Checker built with split_size > max_size keeps those thresholds; when
\* the split_key() call made right after the first true on_kv finds the sizes
\* fed above max_size but not above split_size, no key was latched and the call
\* returns None.
C19_StoppedWithoutKey ==
    \A w \in SeqWorkers :
        (/\ Chk(w).split_size > Chk(w).max_size
         /\ FirstStop(w) > 0
         /\ Len(out[w]) >= 1
         /\ out[w][1].at = FirstStop(w)
         /\ CumSize(fed[w], FirstStop(w)) <= Chk(w).split_size) =>
            /\ CumSize(fed[w], FirstStop(w)) > Chk(w).max_size
            /\ \A j \in 1..Len(latched[w]) : latched[w][j] > FirstStop(w)
            /\ out[w][1].ret = None

\* max_size < current_size <= split_size: on_kv has just returned true and the
\* split_key() call that followed returned None
C19_Witness ==
    \E w \in SeqWorkers :
        /\ Chk(w).max_size < Chk(w).current_size
        /\ Chk(w).current_size <= Chk(w).split_size
        /\ Len(fed[w]) = FirstStop(w)
        /\ rets[w][Len(rets[w])]
        /\ out[w] = <<[at |-> Len(fed[w]), ret |-> None]>>
        /\ Chk(w).split_key = None

====
